---- MODULE Spec2Model ----
(***************************************************************************)
(* The PDF reader of the e-book application (PdfReader, pdf-reader.tsx):   *)
(* the render effect with its "cancelled" closure flag, the page cache of  *)
(* ImageBitmaps, the prefetch tasks and the eviction of distant pages;     *)
(* and the spaced-repetition side: calculateSM2 (sm2.ts), the review queue *)
(* (review-utils.ts, useReviewCount) and the review page.                  *)
(*                                                                         *)
(* Every asynchronous function is cut at its awaits: one action per        *)
(* resumption.  A scale is counted in steps of 0.25 (1.5 is 6), an ease    *)
(* factor in thousandths (2.5 is 2500), a time in ticks, TicksPerDay to    *)
(* the local calendar day.                                                 *)
(***************************************************************************)
EXTENDS Integers, Sequences, FiniteSets, Bags, TLC

\* ---------------------------------------------------------------- bounds
\* Page counts of the documents opened under Spec: 1..MaxPages.
MaxPages == 2
\* Page count of the document read under SpecSeq.
SeqPages == 7
\* The initialPage prop is drawn from 1..MaxInitialPage.
MaxInitialPage == 1
\* Runs of the render effect alive at once (the running one and superseded
\* ones that have not yet resumed).
MaxLive == 2
\* The zoom buttons are pressed only within DefaultScale..DefaultScale+MaxZoom.
MaxZoom == 1

\* Inputs of calculateSM2: repetitions in 0..MaxReps, interval in
\* 0..MaxInterval, easeFactor on a grid of EaseStep thousandths from MinEase,
\* MaxEaseSteps steps long.
MaxReps == 3
MaxInterval == 7
EaseStep == 35
MaxEaseSteps == 40
\* The clock runs over 0..MaxNow ticks, TicksPerDay ticks to the day.
TicksPerDay == 2
MaxNow == 3
\* A card is rated at most MaxRatings times.
MaxRatings == 3
\* A fold of ratings through calculateSM2 is at most MaxFoldRatings long.
MaxFoldRatings == 5
\* The store of a review session holds the cards 1..MaxCards; a card
\* restored from a backup has up to MaxRestoredReps successful recalls; at
\* most MaxPending calls of handleRate are in flight.
MaxCards == 2
MaxRestoredReps == 2
MaxPending == 2

\* ------------------------------------------------------ program constants
PREFETCH_AHEAD == 3
PREFETCH_BEHIND == 1
\* useState(1.5), in quarters
DefaultScale == 6
\* Math.max(s - 0.25, 0.5), in quarters
MinScale == 2
\* Math.min(s + 0.25, 3), in quarters
MaxScale == 12
\* if (newEF < 1.3) newEF = 1.3, in thousandths
MinEase == 1300
\* easeFactor: 2.5 of getDefaultSM2 and of handleRate's ?? 2.5, in thousandths
DefaultEase == 2500

VARIABLES
  numPages,     \* doc.numPages of the file given as fileData
  mounted,      \* the component is mounted
  pdf,          \* the pdf state is set (document loaded)
  loading,      \* the loading state
  error,        \* the error state ("" when none)
  currentPage,  \* the currentPage state
  totalPages,   \* the totalPages state
  scale,        \* the scale state
  pageCache,    \* pageCacheRef.current: page number -> ImageBitmap
  cacheScale,   \* cacheScaleRef.current
  prefetching,  \* prefetchingRef.current
  effects,      \* the live runs of the render effect, oldest first
  tasks,        \* the prefetch tasks in flight (a bag)
  canvas,       \* what the visible canvas shows
  failed,       \* the run of the render effect for the current request died
  last,         \* the step just taken
  now,          \* the clock: what new Date() returns
  sm2,          \* a call of calculateSM2: its input and what it returned
  vocabulary,   \* db.vocabulary: card id -> record
  review,       \* the state of ReviewPage
  asked         \* what the review queue selectors returned when last asked

\* The state of the spaced-repetition side.
reviewVars == <<now, sm2, vocabulary, review, asked>>

\* The state of the PDF reader.
readerVars == <<numPages, mounted, pdf, loading, error, currentPage,
                totalPages, scale, pageCache, cacheScale, prefetching,
                effects, tasks, canvas, failed, last>>

vars == <<readerVars, reviewVars>>

Min(a, b) == IF a < b THEN a ELSE b
Max(a, b) == IF a > b THEN a ELSE b
Abs(a) == IF a < 0 THEN -a ELSE a

RemoveAt(s, i) == SubSeq(s, 1, i - 1) \o SubSeq(s, i + 1, Len(s))

\* An ImageBitmap: the page and the scale it was rendered from, and whether
\* close() has been called on it.
Bitmap(p, s) == [page |-> p, scale |-> s, closed |-> FALSE]

EmptyCache == [p \in {} |-> Bitmap(0, 0)]

Blank == [page |-> 0, status |-> "blank"]

\* The record of a step: the operation, the page and scale of the run or
\* task that took it, whether that run had been superseded, whether the step
\* drew on the visible canvas, the pages it evicted, the pages whose prefetch
\* it started, the pages whose render task it cancelled and the open bitmaps
\* it removed from the cache without closing them, and the pages it called
\* prefetchPage with.  A step of op "Commit" has called
\* onPageChange(page, totalPages).
Step(op, p, s, stale) ==
  [op |-> op, page |-> p, scale |-> s, stale |-> stale, painted |-> FALSE,
   evicted |-> {}, started |-> {}, aborted |-> {}, unclosed |-> {},
   requested |-> {}]

\* ------------------------------------------------------------ the cache

\* Mutant: an entry already there is closed and kept, the new bitmap dropped.
CacheSetClosingOld(cache, p, bm) ==
  IF p \in DOMAIN cache
  THEN [cache EXCEPT ![p].closed = TRUE]
  ELSE [q \in (DOMAIN cache) \cup {p} |-> IF q = p THEN bm ELSE cache[q]]

\* Map.set: the bitmap replaces the entry of the page, if any.
CacheSet(cache, p, bm) ==
  [q \in (DOMAIN cache) \cup {p} |-> IF q = p THEN bm ELSE cache[q]]

\* The open bitmaps that Map.set drops from the map without closing them.
Replaced(cache, p) ==
  IF p \in DOMAIN cache /\ ~cache[p].closed
  THEN {[page |-> cache[p].page, scale |-> cache[p].scale]}
  ELSE {}

\* Mutant: the eviction radius is one page too wide.
DistantPagesWide(cache, current) ==
  {num \in DOMAIN cache : Abs(num - current) > PREFETCH_AHEAD + 2}

\* evictDistantPages: the pages removed from the cache.
DistantPages(cache, current) ==
  {num \in DOMAIN cache : Abs(num - current) > PREFETCH_AHEAD + 1}

\* Mutant: the eviction deletes without closing.
ClosedPagesNone(cache, current) == {}

\* evictDistantPages: the pages whose bitmap bm.close() is called on.
ClosedPages(cache, current) == DistantPages(cache, current)

\* evictDistantPages: each distant page is closed and deleted.
EvictDistantPages(cache, current) ==
  [num \in (DOMAIN cache) \ DistantPages(cache, current) |->
     IF num \in ClosedPages(cache, current)
     THEN [cache[num] EXCEPT !.closed = TRUE]
     ELSE cache[num]]

\* The open bitmaps evictDistantPages deletes from the map without closing.
Unreleased(cache, current) ==
  {[page |-> cache[num].page, scale |-> cache[num].scale] :
     num \in {n \in DistantPages(cache, current) \ ClosedPages(cache, current) :
                ~cache[n].closed}}

\* Mutant: the flush closes the bitmaps and leaves them in the map.
ScaleFlushClosingOnly(cache, cs, s) ==
  IF cs # s
  THEN [p \in DOMAIN cache |-> [cache[p] EXCEPT !.closed = TRUE]]
  ELSE cache

\* The scale flush of the render effect: every bitmap is closed and the map
\* cleared when the scale differs from the scale of the cache.
ScaleFlush(cache, cs, s) == IF cs # s THEN EmptyCache ELSE cache

\* Mutant: the guard forgets the in-flight set.
ShouldPrefetchUncached(cache, inflight, p) == ~(p \in DOMAIN cache)

\* prefetchPage's guard: no work for a page cached or already in flight.
ShouldPrefetch(cache, inflight, p) ==
  ~(p \in DOMAIN cache \/ p \in inflight)

\* Mutant: the loops do not test the page against 1 and totalPages.
PrefetchTargetsUnclamped(p, total) ==
  {p + i : i \in 1..PREFETCH_AHEAD} \cup {p - i : i \in 1..PREFETCH_BEHIND}

\* The pages the two prefetch loops of a commit call prefetchPage for.
PrefetchTargets(p, total) ==
  {p + i : i \in {j \in 1..PREFETCH_AHEAD : p + j <= total}}
    \cup {p - i : i \in {j \in 1..PREFETCH_BEHIND : p - j >= 1}}

\* ------------------------------------------------------ the render effect

NewEffect(p, s, total) ==
  [page |-> p, scale |-> s, total |-> total, pc |-> "getPage",
   cancelled |-> FALSE, isRef |-> FALSE]

\* The cleanup of the previous run: its closure's cancelled flag is set.
Cleanup(effs) == [i \in DOMAIN effs |-> [effs[i] EXCEPT !.cancelled = TRUE]]

\* The runs whose render task renderTaskRef.current.cancel() rejects.
Cancellable(e) == e.isRef /\ e.pc = "render"

\* Mutant: the previous render task is not cancelled.
CancelRenderTaskSkipped(effs) == effs

\* renderTaskRef.current.cancel(): the task rejects and its run returns.
CancelRenderTask(effs) == SelectSeq(effs, LAMBDA e : ~Cancellable(e))

\* The pages whose render task the cancel stopped.
AbortedPages(before, after) ==
  IF Len(after) < Len(before)
  THEN {before[i].page : i \in {j \in DOMAIN before : Cancellable(before[j])}}
  ELSE {}

\* The render effect can run: the document is set and the canvas exists.
CanRender == mounted /\ pdf /\ ~loading /\ error = ""

\* Mutant: the test of the cancelled flag after getPage is missing.
ReturnsIfCancelledTextOnly(pc) == pc = "text"

\* The awaits after which the run tests its cancelled flag and returns:
\* getPage and getTextContent.  The await of tl.render() has no such test,
\* and the test before createImageBitmap is made before that await.
ReturnsIfCancelled(pc) == pc \in {"getPage", "text"}

\* A superseded run waiting at such an await does nothing more: it is taken
\* off the list when its flag is set, which is when its fate is sealed.
DropReturning(effs) ==
  SelectSeq(effs, LAMBDA e : ~(e.cancelled /\ ReturnsIfCancelled(e.pc)))

\* The runs left alive when a new run starts.
Survivors == DropReturning(CancelRenderTask(Cleanup(effects)))

\* A dependency of the render effect changed to page p and scale s: the
\* previous run is cleaned up, the cache flushed on a scale change, the
\* previous render task cancelled and a new run started.
Rerender(op, p, s) ==
  IF CanRender'
  THEN /\ pageCache' = ScaleFlush(pageCache, cacheScale, s)
       /\ cacheScale' = s
       /\ effects' = Append(Survivors, NewEffect(p, s, totalPages'))
       /\ failed' = FALSE
       /\ last' = [Step(op, p, s, FALSE) EXCEPT
                     !.aborted = AbortedPages(Cleanup(effects),
                                              CancelRenderTask(Cleanup(effects)))]
  ELSE /\ UNCHANGED <<pageCache, cacheScale, effects, failed>>
       /\ last' = Step(op, p, s, FALSE)

\* Room for one more run of the render effect.
Room == Len(Survivors) < MaxLive

\* ------------------------------------------------------------- loading

\* The load effect resolves: setPdf, setTotalPages, setLoading(false), and
\* the render effect runs for the first time.
LoadDone ==
  /\ mounted /\ loading
  /\ pdf' = TRUE
  /\ totalPages' = numPages
  /\ loading' = FALSE
  /\ UNCHANGED <<reviewVars, numPages, mounted, error, currentPage, scale, prefetching,
                 tasks, canvas>>
  /\ Rerender("Load", currentPage, scale)

\* The load effect rejects: the error view replaces the reader.
LoadFail ==
  /\ mounted /\ loading
  /\ error' = "load"
  /\ loading' = FALSE
  /\ last' = Step("LoadFail", 0, scale, FALSE)
  /\ UNCHANGED <<reviewVars, numPages, mounted, pdf, currentPage, totalPages, scale,
                 pageCache, cacheScale, prefetching, effects, tasks, canvas, failed>>

\* ----------------------------------------------------------- navigation

\* setCurrentPage(p): a changed page re-runs the render effect.
SetCurrentPage(op, p) ==
  /\ currentPage' = p
  /\ UNCHANGED <<reviewVars, numPages, mounted, pdf, loading, error, totalPages, scale,
                 prefetching, tasks, canvas>>
  /\ IF p # currentPage
     THEN Rerender(op, p, scale)
     ELSE /\ UNCHANGED <<pageCache, cacheScale, effects, failed>>
          /\ last' = Step(op, p, scale, FALSE)

\* ArrowRight / ArrowDown, swipe left, tap right, the next button.
GoNext ==
  /\ mounted /\ Room
  /\ SetCurrentPage("Next", Min(currentPage + 1, totalPages))

\* ArrowLeft / ArrowUp, swipe right, tap left, the previous button.
GoPrev ==
  /\ mounted /\ Room
  /\ SetCurrentPage("Prev", Max(currentPage - 1, 1))

\* The imperative handle's goToPage(page).
GoToPage(page) ==
  /\ mounted /\ Room
  /\ IF page >= 1 /\ page <= totalPages
     THEN SetCurrentPage("GoTo", page)
     ELSE SetCurrentPage("GoTo", currentPage)

\* The zoom buttons of the bottom bar (rendered in the reader view only).
SetScale(op, s) ==
  /\ CanRender /\ Room
  /\ scale' = s
  /\ UNCHANGED <<reviewVars, numPages, mounted, pdf, loading, error, currentPage,
                 totalPages, prefetching, tasks, canvas>>
  /\ IF s # scale
     THEN Rerender(op, currentPage, s)
     ELSE /\ UNCHANGED <<pageCache, cacheScale, effects, failed>>
          /\ last' = Step(op, currentPage, s, FALSE)

ZoomIn ==
  /\ scale < DefaultScale + MaxZoom
  /\ SetScale("ZoomIn", Min(scale + 1, MaxScale))

ZoomOut ==
  /\ scale > DefaultScale
  /\ SetScale("ZoomOut", Max(scale - 1, MinScale))

\* The highlights prop changes (a live query): the render effect re-runs
\* for the same page and scale.
HighlightsChange ==
  /\ CanRender /\ Room
  /\ UNCHANGED <<reviewVars, numPages, mounted, pdf, loading, error, currentPage,
                 totalPages, scale, prefetching, tasks, canvas>>
  /\ Rerender("Highlights", currentPage, scale)

\* The component unmounts: the cleanup of the render effect sets the flag of
\* the running closure, the cleanup of the cache closes and clears it.
Unmount ==
  /\ mounted
  /\ mounted' = FALSE
  /\ effects' = DropReturning(Cleanup(effects))
  /\ pageCache' = EmptyCache
  /\ canvas' = Blank
  /\ last' = Step("Unmount", currentPage, scale, FALSE)
  /\ UNCHANGED <<reviewVars, numPages, pdf, loading, error, currentPage, totalPages,
                 scale, cacheScale, prefetching, tasks,
                 failed>>

\* ------------------------------------------- the steps of a render effect

Shows(p, status) == [page |-> p, status |-> status]

\* The run leaves the list of live runs.
Return(i) == effects' = RemoveAt(effects, i)

\* The run moves to its next await.
Goto(i, pc) == effects' = [effects EXCEPT ![i].pc = pc]

\* Mutant: the cancelled flag is tested again after createImageBitmap.
PrimaryInsertIfCurrent(cache, e) ==
  IF e.cancelled THEN cache ELSE CacheSet(cache, e.page, Bitmap(e.page, e.scale))

\* The bitmap the render effect stores for its page.
PrimaryInsert(cache, e) == CacheSet(cache, e.page, Bitmap(e.page, e.scale))

\* Mutant: the lookup finds nothing.
CacheHitNever(cache, p) == FALSE

\* const cached = pageCacheRef.current.get(currentPage); if (cached)
CacheHit(cache, p) == p \in DOMAIN cache

\* pdf.getPage(currentPage) resolves in a run that goes on (ReturnsIfCancelled
\* has taken the superseded ones away).  The canvas is resized, which clears
\* it, and the cache looked up: a hit is drawn at once, a miss starts a render
\* task on the visible canvas.
GetPageDone(i) ==
  LET e == effects[i] IN
  /\ e.pc = "getPage"
  /\ e.page >= 1 /\ e.page <= numPages
  /\ UNCHANGED <<reviewVars, numPages, mounted, pdf, loading, error, currentPage,
                 totalPages, scale, pageCache, cacheScale, prefetching, tasks>>
  /\ IF CacheHit(pageCache, e.page)
     THEN IF pageCache[e.page].closed
          THEN \* drawImage throws on a closed bitmap: the run dies
               /\ Return(i)
               /\ canvas' = IF mounted THEN Blank ELSE canvas
               /\ failed' = (failed \/ ~e.cancelled)
               /\ last' = [Step("DrawClosed", e.page, e.scale, e.cancelled)
                             EXCEPT !.painted = mounted]
          ELSE /\ Goto(i, "text")
               /\ canvas' = IF mounted THEN Shows(e.page, "full") ELSE canvas
               /\ failed' = failed
               /\ last' = [Step("DrawCached", e.page, e.scale, e.cancelled)
                             EXCEPT !.painted = mounted]
     ELSE /\ effects' = [j \in DOMAIN effects |->
                           IF j = i
                           THEN [e EXCEPT !.pc = "render", !.isRef = TRUE]
                           ELSE [effects[j] EXCEPT !.isRef = FALSE]]
          /\ canvas' = IF mounted THEN Shows(e.page, "partial") ELSE canvas
          /\ failed' = failed
          /\ last' = [Step("StartRender", e.page, e.scale, e.cancelled)
                        EXCEPT !.painted = mounted]

\* renderTask.promise resolves: the page is drawn.  A run that is not
\* superseded goes on to createImageBitmap(canvas).
RenderDone(i) ==
  LET e == effects[i] IN
  /\ e.pc = "render"
  /\ canvas' = IF mounted THEN Shows(e.page, "full") ELSE canvas
  /\ IF e.cancelled THEN Return(i) ELSE Goto(i, "bitmap")
  /\ last' = [Step("RenderDone", e.page, e.scale, e.cancelled)
                EXCEPT !.painted = mounted]
  /\ UNCHANGED <<reviewVars, numPages, mounted, pdf, loading, error, currentPage,
                 totalPages, scale, pageCache, cacheScale, prefetching, tasks, failed>>

\* createImageBitmap(canvas) resolves: the bitmap is stored.
BitmapDone(i) ==
  LET e == effects[i] IN
  /\ e.pc = "bitmap"
  /\ pageCache' = PrimaryInsert(pageCache, e)
  /\ IF e.cancelled THEN Return(i) ELSE Goto(i, "text")
  /\ last' = [Step("BitmapDone", e.page, e.scale, e.cancelled) EXCEPT
                !.unclosed = IF pageCache' # pageCache
                             THEN Replaced(pageCache, e.page) ELSE {}]
  /\ UNCHANGED <<reviewVars, numPages, mounted, pdf, loading, error, currentPage,
                 totalPages, scale, cacheScale, prefetching, tasks, canvas, failed>>

\* createImageBitmap(canvas) rejects: caught, nothing is stored.
BitmapFail(i) ==
  LET e == effects[i] IN
  /\ e.pc = "bitmap"
  /\ IF e.cancelled THEN Return(i) ELSE Goto(i, "text")
  /\ last' = Step("BitmapFail", e.page, e.scale, e.cancelled)
  /\ UNCHANGED <<reviewVars, numPages, mounted, pdf, loading, error, currentPage,
                 totalPages, scale, pageCache, cacheScale, prefetching, tasks,
                 canvas, failed>>

\* page.getTextContent() resolves in a run that goes on: it builds the text
\* layer and awaits its render.
TextDone(i) ==
  LET e == effects[i] IN
  /\ e.pc = "text"
  /\ Goto(i, "tl")
  /\ last' = Step("TextDone", e.page, e.scale, e.cancelled)
  /\ UNCHANGED <<reviewVars, numPages, mounted, pdf, loading, error, currentPage,
                 totalPages, scale, pageCache, cacheScale, prefetching, tasks,
                 canvas, failed>>

\* The pages a commit of page p starts a prefetch for, given the cache after
\* the eviction.
Started(cache, inflight, p, total) ==
  {q \in PrefetchTargets(p, total) : ShouldPrefetch(cache, inflight, q)}

\* tl.render() resolves: the highlights are applied, onPageChange fires,
\* the distant pages are evicted and the neighbours prefetched.  The
\* cancelled flag is not read after this await.
Commit(i) ==
  LET e == effects[i]
      kept == EvictDistantPages(pageCache, e.page)
      started == Started(kept, prefetching, e.page, e.total)
  IN
  /\ e.pc = "tl"
  /\ Return(i)
  /\ pageCache' = kept
  /\ prefetching' = prefetching \cup started
  /\ tasks' = tasks (+) SetToBag({[page |-> q, scale |-> e.scale,
                                   pc |-> "render"] : q \in started})
  /\ last' = [Step("Commit", e.page, e.scale, e.cancelled) EXCEPT
                !.evicted = DOMAIN pageCache \ DOMAIN kept,
                !.started = started,
                !.requested = PrefetchTargets(e.page, e.total),
                !.unclosed = Unreleased(pageCache, e.page)]
  /\ UNCHANGED <<reviewVars, numPages, mounted, pdf, loading, error, currentPage,
                 totalPages, scale, cacheScale, canvas, failed>>

\* getPage, the render task, getTextContent or tl.render rejects for a reason
\* other than cancellation: the catch around the render task returns, the
\* other rejections end the run unhandled.  setError is called by neither.
EffectFail(i) ==
  LET e == effects[i] IN
  /\ e.pc \in {"getPage", "render", "text", "tl"}
  /\ Return(i)
  /\ failed' = (failed \/ ~e.cancelled)
  /\ last' = Step("RenderFail", e.page, e.scale, e.cancelled)
  /\ UNCHANGED <<reviewVars, numPages, mounted, pdf, loading, error, currentPage, totalPages,
                 scale, pageCache, cacheScale, prefetching, tasks, canvas>>

\* ---------------------------------------------------- the prefetch tasks

\* Mutant: the finally block is missing.
FinishLeavesInflight(t) ==
  /\ tasks' = tasks (-) SetToBag({t})
  /\ prefetching' = prefetching

\* The finally block: the page leaves the in-flight set.
Finish(t) ==
  /\ tasks' = tasks (-) SetToBag({t})
  /\ prefetching' = prefetching \ {t.page}

Advance(t, pc) ==
  /\ tasks' = (tasks (-) SetToBag({t})) (+) SetToBag({[t EXCEPT !.pc = pc]})
  /\ prefetching' = prefetching

\* prefetchPage's test before createImageBitmap.
PrefetchScaleOk(cs, renderScale) == cs = renderScale

\* The bitmap a prefetch task stores for its page.
PrefetchInsert(cache, t) == CacheSet(cache, t.page, Bitmap(t.page, t.scale))

\* pdfDoc.getPage(pageNum) and then the render on the hidden canvas resolve
\* (the task reads and writes nothing shared between the two awaits, so they
\* are one step): createImageBitmap is called only if the scale of the cache
\* is still the scale rendered at.
PfRenderDone(t) ==
  /\ t.pc = "render"
  /\ IF PrefetchScaleOk(cacheScale, t.scale)
     THEN /\ Advance(t, "bitmap")
          /\ last' = Step("PfRenderDone", t.page, t.scale, FALSE)
     ELSE /\ Finish(t)
          /\ last' = Step("PfSkip", t.page, t.scale, FALSE)
  /\ UNCHANGED <<reviewVars, numPages, mounted, pdf, loading, error, currentPage,
                 totalPages, scale, pageCache, cacheScale, effects, canvas, failed>>

\* createImageBitmap(tempCanvas) resolves: the bitmap is stored.
PfBitmapDone(t) ==
  /\ t.pc = "bitmap"
  /\ pageCache' = PrefetchInsert(pageCache, t)
  /\ Finish(t)
  /\ last' = [Step("PfBitmapDone", t.page, t.scale, FALSE) EXCEPT
                !.unclosed = IF pageCache' # pageCache
                             THEN Replaced(pageCache, t.page) ELSE {}]
  /\ UNCHANGED <<reviewVars, numPages, mounted, pdf, loading, error, currentPage,
                 totalPages, scale, cacheScale, effects, canvas,
                 failed>>

\* Any await of the task rejects: swallowed by the catch.
PfFail(t) ==
  /\ Finish(t)
  /\ last' = Step("PfFail", t.page, t.scale, FALSE)
  /\ UNCHANGED <<reviewVars, numPages, mounted, pdf, loading, error, currentPage,
                 totalPages, scale, pageCache, cacheScale, effects, canvas, failed>>

\* ------------------------------------------------------- calculateSM2

\* Math.round of the quotient n / d (d > 0): the nearest integer, a half
\* going up.
MathRound(n, d) == (2 * n + d) \div (2 * d)

\* Mutant: the second successful recall is scheduled like the later ones.
SuccessIntervalNoSecond(repetitions, easeFactor, interval) ==
  IF repetitions = 0 THEN 1 ELSE MathRound(interval * easeFactor, 1000)

\* Mutant: from the third successful recall on the interval is divided by
\* the ease factor.
SuccessIntervalDivided(repetitions, easeFactor, interval) ==
  IF repetitions = 0 THEN 1
  ELSE IF repetitions = 1 THEN 6
  ELSE MathRound(interval * 1000, easeFactor)

\* Mutant: from the third successful recall on the interval is kept.
SuccessIntervalKept(repetitions, easeFactor, interval) ==
  IF repetitions = 0 THEN 1
  ELSE IF repetitions = 1 THEN 6
  ELSE interval

\* The interval of a successful recall.
SuccessInterval(repetitions, easeFactor, interval) ==
  IF repetitions = 0 THEN 1
  ELSE IF repetitions = 1 THEN 6
  ELSE MathRound(interval * easeFactor, 1000)

\* Mutant: a failed recall keeps the count of repetitions.
FailedRepetitionsKept(repetitions) == repetitions

\* The repetitions after a failed recall.
FailedRepetitions(repetitions) == 0

\* Mutant: the ease factor is updated on a successful recall only.
EaseDeltaOnSuccess(quality) ==
  IF quality >= 3 THEN 100 - (5 - quality) * (80 + (5 - quality) * 20) ELSE 0

\* 0.1 - (5 - quality) * (0.08 + (5 - quality) * 0.02), in thousandths.
EaseDelta(quality) == 100 - (5 - quality) * (80 + (5 - quality) * 20)

\* Mutant: the ease factor is not floored.
NewEFUnfloored(quality, easeFactor) == easeFactor + EaseDelta(quality)

\* The ease factor after the update, floored at 1.3.
NewEF(quality, easeFactor) ==
  IF easeFactor + EaseDelta(quality) < MinEase
  THEN MinEase
  ELSE easeFactor + EaseDelta(quality)

\* Math.round(newEF * 100) / 100, in thousandths.
RoundEF(ef) == MathRound(ef, 10) * 10

\* The calendar day of a time, and local midnight of a day.
DayOf(t) == t \div TicksPerDay
Midnight(day) == day * TicksPerDay

\* new Date(); setDate(getDate() + newInterval); setHours(0, 0, 0, 0).
NextReviewAt(t, newInterval) == Midnight(DayOf(t) + newInterval)

\* calculateSM2, called at time t.
CalculateSM2(t, quality, repetitions, easeFactor, interval) ==
  LET newInterval == IF quality >= 3
                     THEN SuccessInterval(repetitions, easeFactor, interval)
                     ELSE 1
      newReps == IF quality >= 3
                 THEN repetitions + 1
                 ELSE FailedRepetitions(repetitions)
  IN [nextReviewAt |-> NextReviewAt(t, newInterval),
      interval |-> newInterval,
      easeFactor |-> RoundEF(NewEF(quality, easeFactor)),
      repetitions |-> newReps]

\* The inputs calculateSM2 is called with.
EaseFactors == {MinEase + EaseStep * k : k \in 0..MaxEaseSteps}

SM2Inputs ==
  [quality : 0..5, repetitions : 0..MaxReps, easeFactor : EaseFactors,
   interval : 0..MaxInterval]

NoInput == [quality |-> 0, repetitions |-> 0, easeFactor |-> DefaultEase,
            interval |-> 0]

NoResult == [nextReviewAt |-> 0, interval |-> 0, easeFactor |-> 0,
             repetitions |-> 0]

NoCall == [input |-> NoInput, returned |-> FALSE, result |-> NoResult]

\* calculateSM2 is called with the input and returns.
Calculate ==
  /\ ~sm2.returned
  /\ sm2' = [sm2 EXCEPT
               !.returned = TRUE,
               !.result = CalculateSM2(now, sm2.input.quality,
                                       sm2.input.repetitions,
                                       sm2.input.easeFactor,
                                       sm2.input.interval)]
  /\ UNCHANGED <<now, vocabulary, review, asked, readerVars>>

\* -------------------------------------------------------- the vocabulary

\* A field of a record that is not there (undefined).
Absent == 0 - 1

\* x ?? d
Coalesce(x, d) == IF x = Absent THEN d ELSE x

\* A record of db.vocabulary: the scheduling fields and the mastered flag,
\* which is one of the JavaScript values false, true, 0 and 1.  ratings
\* counts the ratings the card was given, streak the successful ones
\* (quality >= 3) since the last failed one.
Card(reps, ef, interval, next, m) ==
  [repetitions |-> reps, easeFactor |-> ef, interval |-> interval,
   nextReviewAt |-> next, mastered |-> m, ratings |-> 0,
   streak |-> Coalesce(reps, 0)]

\* The record VocabDialog.handleSave adds: mastered false, no scheduling
\* field.
SavedCard == Card(Absent, Absent, Absent, Absent, "false")

\* The scheduling state of getDefaultSM2 and of the upgrade to version 8.
DefaultCard(t, m) == Card(0, DefaultEase, 0, t, m)

EmptyStore == [id \in {} |-> SavedCard]

ClosedReview ==
  [open |-> FALSE, loading |-> TRUE, cards |-> <<>>, currentIndex |-> 0,
   results |-> <<>>, showSummary |-> FALSE, pending |-> <<>>]

\* Nothing was asked of the review queue yet.  Once asked, store and at
\* are the records and the time the selectors ran on.
NotAsked ==
  [answered |-> FALSE, store |-> EmptyStore, at |-> 0, queue |-> <<>>,
   count |-> 0, resolved |-> FALSE, badge |-> 0]

\* What handleRate passes to calculateSM2 for a card, at time t.
RateResult(t, card, quality) ==
  CalculateSM2(t, quality, Coalesce(card.repetitions, 0),
               Coalesce(card.easeFactor, DefaultEase),
               Coalesce(card.interval, 0))

\* mastered: quality >= 4 && sm2Result.repetitions >= 3
MasteredAfter(quality, result) ==
  IF quality >= 4 /\ result.repetitions >= 3 THEN "true" ELSE "false"

\* db.vocabulary.update(id, {...}) of handleRate.
Rated(card, quality, result) ==
  [repetitions |-> result.repetitions, easeFactor |-> result.easeFactor,
   interval |-> result.interval, nextReviewAt |-> result.nextReviewAt,
   mastered |-> MasteredAfter(quality, result),
   ratings |-> card.ratings + 1,
   streak |-> IF quality >= 3 THEN card.streak + 1 ELSE 0]

\* The clock advances.
Tick ==
  /\ now < MaxNow
  /\ now' = now + 1
  /\ UNCHANGED <<sm2, vocabulary, review, asked, readerVars>>

\* A review session shows the card as it is stored and the card is rated
\* once: handleRate computes the new scheduling fields from the card and
\* writes them back.
ReviewOnce(id, quality) ==
  /\ vocabulary[id].ratings < MaxRatings
  /\ vocabulary' =
       [vocabulary EXCEPT
          ![id] = Rated(@, quality, RateResult(now, vocabulary[id], quality))]
  /\ UNCHANGED <<now, sm2, review, asked, readerVars>>

\* ------------------------------------------------------ the review queue

\* db.vocabulary.where("mastered").equals(0): the records the index on
\* mastered holds under the key 0.  A record whose mastered is a boolean has
\* no valid key and is not in the index.
MasteredEqualsZero(card) == card.mastered = "0"

\* The filter of getReviewQueue: never scheduled, or scheduled up to now.
IsDue(card, t) ==
  \/ card.nextReviewAt = Absent
  \/ card.nextReviewAt <= t

\* The ids of the records getReviewQueue returns at time t.
ReviewQueue(store, t) ==
  {id \in DOMAIN store : MasteredEqualsZero(store[id]) /\ IsDue(store[id], t)}

\* The orders a shuffle can put a set of ids in.
Shuffles(ids) ==
  {order \in [1..Cardinality(ids) -> ids] :
     \A i, j \in 1..Cardinality(ids) : order[i] = order[j] => i = j}

\* toArray() of the index query: the records in the order of their ids.
ToArray(ids) ==
  CHOOSE order \in Shuffles(ids) :
    \A i, j \in 1..Cardinality(ids) : i < j => order[i] < order[j]

\* getReviewQueue() at time t, as the list of the ids it returns.
GetReviewQueue(store, t) == ToArray(ReviewQueue(store, t))

\* getReviewCount(): queue.length of its own call of getReviewQueue.
GetReviewCount(store, t) == Len(GetReviewQueue(store, t))

\* A filter that leaves out a record scheduled for exactly t.
HookIsDueStrictly(card, t) ==
  \/ card.nextReviewAt = Absent
  \/ card.nextReviewAt < t

\* The filter of the live query of useReviewCount.
HookIsDue(card, t) ==
  \/ card.nextReviewAt = Absent
  \/ card.nextReviewAt <= t

\* The live query of useReviewCount, run at time t: the length of the
\* filtered index query.
LiveQueryCount(store, t) ==
  Cardinality({id \in DOMAIN store :
                 MasteredEqualsZero(store[id]) /\ HookIsDue(store[id], t)})

\* useReviewCount(): count ?? 0, where count is undefined until the live
\* query has resolved.
UseReviewCount(store, t, resolved) ==
  Coalesce(IF resolved THEN LiveQueryCount(store, t) ELSE Absent, 0)

\* VocabDialog.handleSave: db.vocabulary.add gives the record the next id.
AddWord ==
  /\ Cardinality(DOMAIN vocabulary) < MaxCards
  /\ vocabulary' =
       [id \in DOMAIN vocabulary \cup {Cardinality(DOMAIN vocabulary) + 1} |->
          IF id \in DOMAIN vocabulary THEN vocabulary[id] ELSE SavedCard]
  /\ UNCHANGED <<now, sm2, review, asked, readerVars>>

\* The three selectors run on the store as it is, at the present time; the
\* badge is read before or after its live query has resolved.
AskReviewQueue(resolved) ==
  /\ asked' = [answered |-> TRUE, store |-> vocabulary, at |-> now,
               queue |-> GetReviewQueue(vocabulary, now),
               count |-> GetReviewCount(vocabulary, now),
               resolved |-> resolved,
               badge |-> UseReviewCount(vocabulary, now, resolved)]
  /\ UNCHANGED <<now, sm2, vocabulary, review, readerVars>>

\* -------------------------------------------------------- the review page

\* A card as ReviewPage holds it in cards: a copy made when it was loaded.
Snapshot(store, id) ==
  [id |-> id, repetitions |-> store[id].repetitions,
   easeFactor |-> store[id].easeFactor, interval |-> store[id].interval]

\* The flashcard view is shown.
ShowsCard ==
  /\ review.open /\ ~review.loading /\ ~review.showSummary
  /\ Len(review.cards) > 0

\* cards[currentIndex], when there is one.
HasCurrentCard == review.currentIndex + 1 <= Len(review.cards)
CurrentCard == review.cards[review.currentIndex + 1]

\* The calls of handleRate in flight for a card.
InFlight(id) ==
  Cardinality({i \in DOMAIN review.pending : review.pending[i].id = id})

\* ReviewPage mounts and getReviewQueue resolves: the due cards are copied
\* and shuffled.
OpenReview ==
  /\ ~review.open
  /\ \E order \in Shuffles(ReviewQueue(vocabulary, now)) :
       review' = [ClosedReview EXCEPT
                    !.open = TRUE, !.loading = FALSE,
                    !.cards = [i \in DOMAIN order |->
                                 Snapshot(vocabulary, order[i])],
                    !.pending = review.pending]
  /\ UNCHANGED <<now, sm2, vocabulary, asked, readerVars>>

\* A rating button is pressed: handleRate computes the new fields from the
\* current card and starts the update of the store.
Rate(quality) ==
  /\ ShowsCard /\ HasCurrentCard
  /\ Len(review.pending) < MaxPending
  /\ vocabulary[CurrentCard.id].ratings + InFlight(CurrentCard.id) < MaxRatings
  /\ review' = [review EXCEPT !.pending = Append(@,
                  [id |-> CurrentCard.id, quality |-> quality,
                   result |-> RateResult(now, CurrentCard, quality),
                   index |-> review.currentIndex, total |-> Len(review.cards),
                   stage |-> "update", live |-> TRUE])]
  /\ UNCHANGED <<now, sm2, vocabulary, asked, readerVars>>

\* The oldest call of handleRate in the given stage.
Oldest(stage) ==
  CHOOSE i \in DOMAIN review.pending :
    /\ review.pending[i].stage = stage
    /\ \A j \in 1..(i - 1) : review.pending[j].stage # stage

\* db.vocabulary.update resolves: the record is written; in a page still
\* mounted the result is recorded and the 200 ms timer started.
UpdateDone ==
  /\ \E i \in DOMAIN review.pending : review.pending[i].stage = "update"
  /\ LET i == Oldest("update")
          call == review.pending[i]
     IN /\ vocabulary' = [vocabulary EXCEPT
                            ![call.id] = Rated(@, call.quality, call.result)]
        /\ IF call.live
           THEN review' = [review EXCEPT
                             !.results = [id \in DOMAIN @ \cup {call.id} |->
                                            IF id = call.id THEN call.quality
                                            ELSE @[id]],
                             !.pending[i].stage = "timer"]
           ELSE review' = [review EXCEPT !.pending = RemoveAt(@, i)]
  /\ UNCHANGED <<now, sm2, asked, readerVars>>

\* The 200 ms timer fires: the summary is shown after the last card of the
\* closure, the index advanced otherwise.
TimerFire ==
  /\ \E i \in DOMAIN review.pending : review.pending[i].stage = "timer"
  /\ LET i == Oldest("timer")
          call == review.pending[i]
     IN review' = [review EXCEPT
                     !.showSummary = IF call.index + 1 >= call.total
                                     THEN TRUE ELSE @,
                     !.currentIndex = IF call.index + 1 >= call.total
                                      THEN @ ELSE @ + 1,
                     !.pending = RemoveAt(@, i)]
  /\ UNCHANGED <<now, sm2, vocabulary, asked, readerVars>>

\* The cards of the session rated below 3.
FailedCards ==
  {i \in DOMAIN review.cards :
     /\ review.cards[i].id \in DOMAIN review.results
     /\ review.results[review.cards[i].id] < 3}

\* The retry button of the summary: the failed cards, as copied at the start
\* of the session, are shuffled into a new round.
RetryFailed ==
  /\ review.open /\ ~review.loading /\ review.showSummary
  /\ FailedCards # {}
  /\ \E order \in Shuffles(FailedCards) :
       review' = [review EXCEPT
                    !.cards = [i \in DOMAIN order |-> review.cards[order[i]]],
                    !.currentIndex = 0,
                    !.results = <<>>,
                    !.showSummary = FALSE]
  /\ UNCHANGED <<now, sm2, vocabulary, asked, readerVars>>

\* The page is left: the updates in flight still reach the store, the
\* timers set nothing any more.
LeaveReview ==
  /\ review.open
  /\ review' = [ClosedReview EXCEPT
                  !.pending =
                    [i \in DOMAIN SelectSeq(review.pending,
                                            LAMBDA c : c.stage = "update") |->
                       [SelectSeq(review.pending,
                                  LAMBDA c : c.stage = "update")[i]
                          EXCEPT !.live = FALSE]]]
  /\ UNCHANGED <<now, sm2, vocabulary, asked, readerVars>>

\* !current of a mastered flag.
Negated(m) == IF m \in {"true", "1"} THEN "false" ELSE "true"

\* The vocabulary page is shown: the review page is not, and no update of
\* it is in flight.
OnVocabularyPage == ~review.open /\ review.pending = <<>>

\* toggleMastered of the vocabulary page.
ToggleMastered(id) ==
  /\ OnVocabularyPage
  /\ vocabulary' = [vocabulary EXCEPT ![id].mastered = Negated(@)]
  /\ UNCHANGED <<now, sm2, review, asked, readerVars>>

\* FlashcardQuiz.handleAnswer(mastered): the answer is written to the flag.
QuizAnswer(id, known) ==
  /\ OnVocabularyPage
  /\ vocabulary' = [vocabulary EXCEPT
                      ![id].mastered = IF known THEN "true" ELSE "false"]
  /\ UNCHANGED <<now, sm2, review, asked, readerVars>>

\* ------------------------------------------------------ specifications

InitWith(pages) ==
  /\ numPages \in pages
  /\ mounted = TRUE
  /\ pdf = FALSE
  /\ loading = TRUE
  /\ error = ""
  /\ currentPage \in 1..MaxInitialPage
  /\ totalPages = 0
  /\ scale = DefaultScale
  /\ pageCache = EmptyCache
  /\ cacheScale = DefaultScale
  /\ prefetching = {}
  /\ effects = <<>>
  /\ tasks = EmptyBag
  /\ canvas = Blank
  /\ failed = FALSE
  /\ last = Step("Mount", 0, DefaultScale, FALSE)

\* The reader alone: no call of calculateSM2 is made.
NoReview ==
  /\ now = 0
  /\ sm2 = NoCall
  /\ vocabulary = EmptyStore
  /\ review = ClosedReview
  /\ asked = NotAsked

Init == InitWith(1..MaxPages) /\ NoReview

Next ==
  \/ LoadDone
  \/ LoadFail
  \/ GoNext
  \/ GoPrev
  \/ \E page \in 0..(numPages + 1) : GoToPage(page)
  \/ ZoomIn
  \/ ZoomOut
  \/ HighlightsChange
  \/ Unmount
  \/ \E i \in DOMAIN effects : GetPageDone(i)
  \/ \E i \in DOMAIN effects : RenderDone(i)
  \/ \E i \in DOMAIN effects : BitmapDone(i)
  \/ \E i \in DOMAIN effects : BitmapFail(i)
  \/ \E i \in DOMAIN effects : TextDone(i)
  \/ \E i \in DOMAIN effects : Commit(i)
  \/ \E i \in DOMAIN effects : EffectFail(i)
  \/ \E t \in BagToSet(tasks) : PfRenderDone(t)
  \/ \E t \in BagToSet(tasks) : PfBitmapDone(t)
  \/ \E t \in BagToSet(tasks) : PfFail(t)

Spec == Init /\ [][Next]_vars

\* Reading a document page after page: the reader turns one page forward or
\* back once the page shown has been committed, and every await resolves.
InitSeq == InitWith({SeqPages}) /\ NoReview

TurnForward == effects = <<>> /\ GoNext

TurnBack == effects = <<>> /\ GoPrev

NextSeq ==
  \/ LoadDone
  \/ TurnForward
  \/ TurnBack
  \/ \E i \in DOMAIN effects : GetPageDone(i)
  \/ \E i \in DOMAIN effects : RenderDone(i)
  \/ \E i \in DOMAIN effects : BitmapDone(i)
  \/ \E i \in DOMAIN effects : TextDone(i)
  \/ \E i \in DOMAIN effects : Commit(i)
  \/ \E t \in BagToSet(tasks) : PfRenderDone(t)
  \/ \E t \in BagToSet(tasks) : PfBitmapDone(t)

SpecSeq == InitSeq /\ [][NextSeq]_vars

\* calculateSM2 alone: one call, on any input, at any time.
InitSM2 ==
  /\ InitWith({1})
  /\ now \in 0..MaxNow
  /\ sm2 \in [input : SM2Inputs, returned : {FALSE}, result : {NoResult}]
  /\ vocabulary = EmptyStore
  /\ review = ClosedReview
  /\ asked = NotAsked

NextSM2 == Calculate

SpecSM2 == InitSM2 /\ [][NextSM2]_vars

\* One card from the default scheduling state, rated again and again, each
\* time in a session that shows it as stored.
InitFold ==
  /\ InitWith({1})
  /\ now = 0
  /\ sm2 = NoCall
  /\ vocabulary \in [{1} -> {SavedCard, DefaultCard(0, "false"),
                              DefaultCard(0, "0")}]
  /\ review = ClosedReview
  /\ asked = NotAsked

NextFold ==
  \/ Tick
  \/ \E id \in DOMAIN vocabulary, quality \in 0..5 : ReviewOnce(id, quality)

SpecFold == InitFold /\ [][NextFold]_vars

\* A record restored from a backup (db.vocabulary.bulkPut) whose mastered
\* flag is the number 0, with k repetitions behind it.
RestoredCard(k) ==
  Card(k, DefaultEase, IF k = 0 THEN 0 ELSE IF k = 1 THEN 1 ELSE 6 * (k - 1),
       0, "0")

\* The review page over a store of saved and restored cards, within one
\* day.
InitReview ==
  /\ InitWith({1})
  /\ now = 0
  /\ sm2 = NoCall
  /\ vocabulary \in [1..MaxCards ->
                       {SavedCard} \cup {RestoredCard(k) : k \in 0..MaxRestoredReps}]
  /\ review = ClosedReview
  /\ asked = NotAsked

NextReview ==
  \/ OpenReview
  \/ \E quality \in {0, 3, 4, 5} : Rate(quality)
  \/ UpdateDone
  \/ TimerFire
  \/ RetryFailed
  \/ LeaveReview
  \/ \E id \in DOMAIN vocabulary : ToggleMastered(id)
  \/ \E id \in DOMAIN vocabulary, known \in BOOLEAN : QuizAnswer(id, known)

SpecReview == InitReview /\ [][NextReview]_vars

\* The values mastered has in a stored record: the booleans the pages
\* write, and the numbers a restored backup can hold.
MasteredValues == {"false", "true", "0", "1"}

\* Records as the review queue meets them: any mastered value, not yet
\* scheduled or scheduled for any time.
QueueCards ==
  {Card(Absent, Absent, Absent, next, m) :
     next \in {Absent} \cup (0..MaxNow), m \in MasteredValues}

\* The selectors over any store of up to MaxCards records, at any time.
InitQueue ==
  /\ InitWith({1})
  /\ now \in 0..MaxNow
  /\ sm2 = NoCall
  /\ \E n \in 0..MaxCards : vocabulary \in [1..n -> QueueCards]
  /\ review = ClosedReview
  /\ asked = NotAsked

NextQueue ==
  \/ Tick
  \/ AddWord
  \/ \E resolved \in BOOLEAN : AskReviewQueue(resolved)

SpecQueue == InitQueue /\ [][NextQueue]_vars

\* A review session at the present time shows the card, which is in the
\* review queue, and the card is rated.
ReviewDue(id, quality) ==
  /\ id \in ReviewQueue(vocabulary, now)
  /\ ReviewOnce(id, quality)

\* Cards the review queue finds, rated when due while the clock runs, and
\* the queue asked at any time.
InitSchedule ==
  /\ InitWith({1})
  /\ now = 0
  /\ sm2 = NoCall
  /\ vocabulary \in [1..MaxCards -> {RestoredCard(k) : k \in 0..MaxRestoredReps}]
  /\ review = ClosedReview
  /\ asked = NotAsked

NextSchedule ==
  \/ Tick
  \/ \E id \in DOMAIN vocabulary, quality \in 0..5 : ReviewDue(id, quality)
  \/ \E resolved \in BOOLEAN : AskReviewQueue(resolved)

SpecSchedule == InitSchedule /\ [][NextSchedule]_vars

\* The reader when nothing fails and the component stays mounted: every
\* await of the render effect and of the prefetch tasks resolves.
NextSettle ==
  \/ LoadDone
  \/ GoNext
  \/ GoPrev
  \/ \E page \in 0..(numPages + 1) : GoToPage(page)
  \/ ZoomIn
  \/ ZoomOut
  \/ HighlightsChange
  \/ \E i \in DOMAIN effects : GetPageDone(i)
  \/ \E i \in DOMAIN effects : RenderDone(i)
  \/ \E i \in DOMAIN effects : BitmapDone(i)
  \/ \E i \in DOMAIN effects : TextDone(i)
  \/ \E i \in DOMAIN effects : Commit(i)
  \/ \E t \in BagToSet(tasks) : PfRenderDone(t)
  \/ \E t \in BagToSet(tasks) : PfBitmapDone(t)

SpecSettle == Init /\ [][NextSettle]_vars

\* One more rating folded through calculateSM2: the fields it returned for
\* the previous rating are its input.
FoldOnce(id, quality) ==
  /\ vocabulary[id].ratings < MaxFoldRatings
  /\ vocabulary' =
       [vocabulary EXCEPT
          ![id] = Rated(@, quality, RateResult(now, vocabulary[id], quality))]
  /\ UNCHANGED <<now, sm2, review, asked, readerVars>>

\* Every sequence of up to MaxFoldRatings ratings of one card, from the
\* default scheduling state.
NextFoldLong ==
  \E id \in DOMAIN vocabulary, quality \in 0..5 : FoldOnce(id, quality)

SpecFoldLong == InitFold /\ [][NextFoldLong]_vars

\* ------------------------------------------------------------ the claims

\* No run of the render effect is alive.
Idle == effects = <<>>

Superseded == {i \in DOMAIN effects : effects[i].cancelled}

Rendering == {i \in DOMAIN effects : effects[i].pc = "render"}

\* C1: a step that draws on the visible canvas is taken by the run of the
\* most recent request, never by a superseded one; and once every run has
\* finished without failing, the canvas shows the current page in full.
C1_LastRequestWins ==
  /\ last.painted => (~last.stale /\ last.page = currentPage)
  /\ (Idle /\ CanRender /\ ~failed) => canvas = Shows(currentPage, "full")

\* The page of the latest request is drawn in full while a superseded run is
\* still alive.
C1_Witness ==
  /\ Superseded # {}
  /\ last.painted /\ last.page = currentPage
  /\ canvas = Shows(currentPage, "full")

\* C2: the commit (onPageChange, eviction, prefetch) is made only by a run
\* that has not been superseded, for the page that is current.
C2_CommitOnlyIfCurrent ==
  last.op = "Commit" => (~last.stale /\ last.page = currentPage)

\* C3: every bitmap in the cache was rendered at the scale recorded as the
\* scale of the cache.
C3_CacheAtCacheScale ==
  \A p \in DOMAIN pageCache : pageCache[p].scale = cacheScale

\* C4 as claimed: the cache never holds more than
\* aheadWindow + behindWindow + 2 entries.
C4_AtMostSix ==
  Cardinality(DOMAIN pageCache) <= PREFETCH_AHEAD + PREFETCH_BEHIND + 2

\* C4 as amended: right after a commit of page c every resident page lies in
\* c-4..c+4, so that at most 2 * (PREFETCH_AHEAD + 1) + 1 = 9 are resident.
C4_WindowAfterCommit ==
  last.op = "Commit" =>
    /\ DOMAIN pageCache \subseteq
         (last.page - (PREFETCH_AHEAD + 1))..(last.page + (PREFETCH_AHEAD + 1))
    /\ Cardinality(DOMAIN pageCache) <= 2 * (PREFETCH_AHEAD + 1) + 1

\* A commit leaves more than six pages resident.
C4_Witness ==
  /\ last.op = "Commit"
  /\ Cardinality(DOMAIN pageCache) > PREFETCH_AHEAD + PREFETCH_BEHIND + 2

\* C5: right after the eviction of a commit of page c no page further than
\* max(aheadWindow, behindWindow) + 1 from c is in the cache, and no bitmap
\* it removed is left open.
C5_EvictDistant ==
  last.op = "Commit" =>
    /\ \A p \in DOMAIN pageCache :
         Abs(p - last.page) <= Max(PREFETCH_AHEAD, PREFETCH_BEHIND) + 1
    /\ last.unclosed = {}
    /\ \A p \in DOMAIN pageCache : ~pageCache[p].closed

\* A commit has evicted a page.
C5_Witness == last.op = "Commit" /\ last.evicted # {}

\* C6: when a render effect or a prefetch task stores its bitmap, the entry
\* of the page is an open bitmap of that page at the scale rendered at,
\* also when the other one is storing the same page.
C6_IdempotentInsert ==
  last.op \in {"BitmapDone", "PfBitmapDone"} =>
    /\ last.page \in DOMAIN pageCache
    /\ pageCache[last.page] = Bitmap(last.page, last.scale)

\* One of the two has stored the page while the other is still in flight
\* for the same page and scale, or has stored it before.
C6_Witness ==
  \/ /\ last.op = "BitmapDone"
     /\ \E t \in BagToSet(tasks) : t.page = last.page /\ t.scale = last.scale
  \/ /\ last.op = "PfBitmapDone"
     /\ last.unclosed = {[page |-> last.page, scale |-> last.scale]}

\* C7: at most one render task on the visible canvas is in flight, and a
\* superseded run starts none.
C7_OnePrimaryRender ==
  /\ Cardinality(Rendering) <= 1
  /\ last.op = "StartRender" => ~last.stale

\* A new request has cancelled the render task in flight.
C7_Witness == last.aborted # {} /\ Rendering = {}

\* C8 as claimed: the render task of a superseded request is never stopped.
C8_NeverAborted == last.aborted = {}

\* C8 as amended: a run superseded while its render task is in flight is
\* cancelled (no superseded run of a mounted reader is rendering), and a run
\* superseded while createImageBitmap is pending still stores its bitmap
\* under its own page.
C8_SupersededInsert ==
  /\ mounted => Superseded \cap Rendering = {}
  /\ (last.op = "BitmapDone" /\ last.stale) =>
       /\ last.page \in DOMAIN pageCache
       /\ pageCache[last.page] = Bitmap(last.page, last.scale)

\* A superseded run has stored its bitmap.
C8_Witness == last.op = "BitmapDone" /\ last.stale /\ mounted

\* C9: a failure of the render of the current request puts the reader in
\* its error state.
C9_ErrorSurfaced ==
  (last.op = "RenderFail" /\ ~last.stale) => error # ""

\* C10: no two prefetch tasks are in flight for one page, and a commit
\* starts no prefetch for a page that is cached.
C10_OnePrefetchPerPage ==
  /\ \A t \in BagToSet(tasks) :
       /\ CopiesIn(t, tasks) = 1
       /\ \A u \in BagToSet(tasks) : u.page = t.page => u = t
  /\ last.op = "Commit" => last.started \cap DOMAIN pageCache = {}

\* A commit asked for the prefetch of a page already in flight, and none
\* was started.
C10_Witness ==
  /\ last.op = "Commit"
  /\ \E p \in PrefetchTargets(last.page, totalPages) \ last.started :
       p \in prefetching

\* C11 as claimed: when a prefetch of page p has failed, p is absent from the
\* cache.
C11_AbsentAfterFailure ==
  last.op = "PfFail" => ~(last.page \in DOMAIN pageCache)

\* C11 as amended: the step in which a prefetch of page p fails changes
\* neither the error state, the current page, the visible canvas nor the
\* cache, and after it p is not in the in-flight set and no task is left
\* for p.
C11_FailureSwallowed ==
  [][\A t \in BagToSet(tasks) :
       PfFail(t) =>
         /\ error' = error /\ currentPage' = currentPage /\ canvas' = canvas
         /\ pageCache' = pageCache
         /\ ~(t.page \in prefetching')
         /\ \A u \in BagToSet(tasks') : u.page # t.page]_vars

\* A prefetch has failed while the reader shows a page, and its page is
\* neither in flight nor cached.
C11_Witness ==
  /\ last.op = "PfFail" /\ mounted
  /\ canvas.status = "full"
  /\ ~(last.page \in prefetching)
  /\ ~(last.page \in DOMAIN pageCache)

\* C12: a commit of page c calls prefetchPage for exactly the pages of
\* c+1..c+3 and c-1 that lie in 1..totalPages, and no prefetch is ever in
\* flight for a page outside 1..totalPages.
C12_PrefetchWindowClamped ==
  /\ last.op = "Commit" =>
        last.requested =
          (((last.page + 1)..(last.page + 3)) \cup {last.page - 1})
            \cap (1..totalPages)
  /\ \A t \in BagToSet(tasks) : t.page >= 1 /\ t.page <= totalPages
  /\ \A q \in prefetching : q >= 1 /\ q <= totalPages

\* The commit of the page before the last one: the window is cut at the end
\* of the document.
C12_Witness ==
  /\ last.op = "Commit" /\ last.page = totalPages - 1
  /\ last.requested = {totalPages - 2, totalPages}

\* C13: once the reader is unmounted and every run of the render effect and
\* every prefetch task has finished, the cache is empty.
C13_EmptyAfterTeardown ==
  (~mounted /\ effects = <<>> /\ tasks = EmptyBag) => pageCache = EmptyCache

\* C14: for quality 3..5 calculateSM2 returns repetitions + 1 and the
\* interval 1 when repetitions is 0, 6 when it is 1, and otherwise
\* round(interval * easeFactor) of the ease factor passed in.
C14_SuccessInterval ==
  (sm2.returned /\ sm2.input.quality >= 3) =>
    /\ sm2.result.repetitions = sm2.input.repetitions + 1
    /\ sm2.input.repetitions = 0 => sm2.result.interval = 1
    /\ sm2.input.repetitions = 1 => sm2.result.interval = 6
    /\ sm2.input.repetitions >= 2 =>
          \* the integer nearest to interval * easeFactor, a half going up
          /\ 2000 * sm2.result.interval
                <= 2 * sm2.input.interval * sm2.input.easeFactor + 1000
          /\ 2000 * sm2.result.interval
                > 2 * sm2.input.interval * sm2.input.easeFactor - 1000

\* A successful third recall whose ease factor changes in the same call and
\* whose interval, rounded from the ease factor passed in, differs from the
\* one the updated ease factor would give.
C14_Witness ==
  /\ sm2.returned /\ sm2.input.quality = 3 /\ sm2.input.repetitions = 2
  /\ sm2.result.easeFactor # sm2.input.easeFactor
  /\ sm2.result.interval > 6
  /\ sm2.result.interval
       # MathRound(sm2.input.interval * sm2.result.easeFactor, 1000)

\* C15: for quality 0..2 calculateSM2 returns interval 1 and repetitions 0.
C15_FailureResets ==
  (sm2.returned /\ sm2.input.quality <= 2) =>
    sm2.result.interval = 1 /\ sm2.result.repetitions = 0

\* A failed recall of a card with repetitions and a long interval.
C15_Witness ==
  /\ sm2.returned /\ sm2.input.quality = 2
  /\ sm2.input.repetitions = MaxReps /\ sm2.input.interval = MaxInterval
  /\ sm2.result.interval = 1 /\ sm2.result.repetitions = 0

\* C16: the stored ease factor is at least 1.3, the repetitions and the
\* interval are not negative, and the interval is at least 1 once the card
\* has been rated.
C16_SchedulingFieldsInRange ==
  \A id \in DOMAIN vocabulary :
    LET card == vocabulary[id] IN
    /\ Coalesce(card.easeFactor, DefaultEase) >= MinEase
    /\ Coalesce(card.repetitions, 0) >= 0
    /\ Coalesce(card.interval, 0) >= 0
    /\ card.ratings > 0 =>
          card.interval >= 1 /\ card.easeFactor >= MinEase
                             /\ card.repetitions >= 0

\* The ease factor has come down to the floor and stayed there through a
\* further failed rating.
C16_Witness ==
  \E id \in DOMAIN vocabulary :
    /\ vocabulary[id].ratings >= 3
    /\ vocabulary[id].easeFactor = MinEase
    /\ vocabulary[id].repetitions = 0

\* C17: the stored repetitions of a card that has been rated are the number
\* of successful ratings since its last failed rating.
C17_RepetitionsCountStreak ==
  \A id \in DOMAIN vocabulary :
    vocabulary[id].ratings > 0 =>
      vocabulary[id].repetitions = vocabulary[id].streak

\* A mastered flag that is true.
Truthy(m) == m \in {"true", "1"}

\* C18: the mastered flag of a card becomes true only in a step of
\* toggleMastered, or when handleRate writes a rating of quality >= 4 that
\* leaves at least three repetitions after at least three successful
\* ratings in a row.
C18_MasteredOnlyByRating ==
  [][\A id \in DOMAIN vocabulary :
       (~Truthy(vocabulary[id].mastered) /\ Truthy(vocabulary'[id].mastered))
         => \/ ToggleMastered(id)
            \/ /\ UpdateDone
               /\ vocabulary'[id].repetitions >= 3
               /\ vocabulary'[id].streak >= 3]_vars

\* C19: getReviewQueue returns exactly the records whose mastered is false
\* and whose nextReviewAt is absent or not after now; a card just saved
\* from the vocabulary dialog is among them.
C19_QueueIsUnmasteredAndDue ==
  asked.answered =>
    {asked.queue[i] : i \in 1..Len(asked.queue)} =
      {id \in DOMAIN asked.store :
         /\ ~Truthy(asked.store[id].mastered)
         /\ \/ asked.store[id].nextReviewAt = Absent
            \/ asked.store[id].nextReviewAt <= asked.at}

\* C20: getReviewCount and the useReviewCount badge both give the length of
\* the list getReviewQueue returns for the same store and the same time,
\* the badge as the value of its live query run at that time.
C20_CountsAgreeWithQueue ==
  asked.answered =>
    /\ asked.count = Len(asked.queue)
    /\ asked.resolved => asked.badge = Len(asked.queue)

\* The selectors ran on a store where one record is due exactly now and in
\* the queue, and another is left out.
C20_Witness ==
  /\ asked.answered
  /\ asked.resolved
  /\ asked.count = Len(asked.queue)
  /\ asked.badge = Len(asked.queue)
  /\ \E i \in 1..Len(asked.queue) :
       asked.store[asked.queue[i]].nextReviewAt = asked.at
  /\ Len(asked.queue) < Cardinality(DOMAIN asked.store)

\* C21: a rating on day d that yields interval n schedules the card for the
\* midnight of day d + n; and a rated card that is not mastered is in the
\* review queue exactly when the queue is asked at or after its
\* nextReviewAt.
C21_DueFromMidnight ==
  [][/\ \A id \in DOMAIN vocabulary :
          vocabulary'[id].ratings > vocabulary[id].ratings =>
            vocabulary'[id].nextReviewAt =
              Midnight(DayOf(now) + vocabulary'[id].interval)
     /\ asked'.answered =>
          \A id \in DOMAIN asked'.store :
            (asked'.store[id].ratings > 0
               /\ ~Truthy(asked'.store[id].mastered)) =>
              ((\E i \in 1..Len(asked'.queue) : asked'.queue[i] = id)
                 <=> asked'.store[id].nextReviewAt <= asked'.at)]_vars

\* C22: for a successful recall with repetitions >= 2 and interval > 0 the
\* new interval does not decrease when the ease factor grows: the interval
\* returned is at most the one calculateSM2 gives for any larger ease
\* factor and at least the one it gives for any smaller one.
C22_IntervalMonotoneInEase ==
  (sm2.returned /\ sm2.input.quality >= 3 /\ sm2.input.repetitions >= 2
     /\ sm2.input.interval > 0) =>
    \A e \in EaseFactors :
      LET other == CalculateSM2(now, sm2.input.quality,
                                sm2.input.repetitions, e,
                                sm2.input.interval).interval
      IN /\ e >= sm2.input.easeFactor => sm2.result.interval <= other
         /\ e <= sm2.input.easeFactor => other <= sm2.result.interval

\* A third or later successful recall returned an interval that a larger
\* ease factor makes strictly longer and a smaller one strictly shorter.
C22_Witness ==
  /\ sm2.returned
  /\ sm2.input.quality >= 3
  /\ sm2.input.repetitions >= 2
  /\ sm2.input.interval > 1
  /\ \E e1, e2 \in EaseFactors :
       /\ e1 < sm2.input.easeFactor
       /\ sm2.input.easeFactor < e2
       /\ CalculateSM2(now, sm2.input.quality, sm2.input.repetitions, e1,
                       sm2.input.interval).interval < sm2.result.interval
       /\ sm2.result.interval <
            CalculateSM2(now, sm2.input.quality, sm2.input.repetitions, e2,
                         sm2.input.interval).interval

\* C23: on success and on failure alike the ease factor returned is
\* max(1.3, easeFactor + d) rounded to two decimals, d being +0.10, 0,
\* -0.14, -0.32, -0.54, -0.80 for quality 5, 4, 3, 2, 1, 0; from an ease
\* factor of two decimals it rises only on quality 5, and a failed recall
\* lowers it by d down to the floor while the interval is reset to 1.
C23_EaseFactorUpdate ==
  sm2.returned =>
    LET d == CASE sm2.input.quality = 5 -> 100
               [] sm2.input.quality = 4 -> 0
               [] sm2.input.quality = 3 -> 0 - 140
               [] sm2.input.quality = 2 -> 0 - 320
               [] sm2.input.quality = 1 -> 0 - 540
               [] sm2.input.quality = 0 -> 0 - 800
        exact == Max(MinEase, sm2.input.easeFactor + d)
    IN /\ sm2.result.easeFactor % 10 = 0
       /\ Abs(sm2.result.easeFactor - exact) <= 5
       /\ sm2.input.easeFactor % 10 = 0 =>
            /\ sm2.result.easeFactor = exact
            /\ sm2.result.easeFactor > sm2.input.easeFactor
                 => sm2.input.quality = 5
       /\ sm2.input.quality < 3 =>
            /\ sm2.result.interval = 1
            /\ sm2.result.easeFactor <= sm2.input.easeFactor
            /\ sm2.input.easeFactor + d >= MinEase + 5
                 => sm2.result.easeFactor < sm2.input.easeFactor

\* A failed recall of quality 0 returned an ease factor lower by 0.80 and
\* the interval 1.
C23_Witness ==
  /\ sm2.returned
  /\ sm2.input.quality = 0
  /\ sm2.input.interval > 1
  /\ sm2.result.easeFactor = sm2.input.easeFactor - 800
  /\ sm2.result.easeFactor > MinEase
  /\ sm2.result.interval = 1

\* C24: a run of the render effect that finds a bitmap of its page in the
\* cache paints the visible canvas from it, starts no render task, and
\* leaves the cache as it was.
C24_CacheHitPaints ==
  [][\A i \in DOMAIN effects :
       (GetPageDone(i) /\ effects[i].page \in DOMAIN pageCache) =>
         /\ pageCache' = pageCache
         /\ last'.op = "DrawCached"
         /\ last'.started = {}
         /\ Len(effects') = Len(effects)
         /\ effects'[i].pc = "text"
         /\ \A j \in DOMAIN effects' :
              effects'[j].pc = "render" => effects[j].pc = "render"
         /\ UNCHANGED <<tasks, prefetching, cacheScale>>
         /\ mounted => canvas' = Shows(effects[i].page, "full")]_vars

\* A run has painted its page from a bitmap of the current scale that a
\* prefetch had stored.
C24_Witness ==
  /\ last.op = "DrawCached"
  /\ last.painted
  /\ last.page \in DOMAIN pageCache
  /\ pageCache[last.page].scale = scale
  /\ canvas = Shows(last.page, "full")
  /\ last.page = currentPage

\* C26: no step drops an open bitmap from the cache: a bitmap that leaves
\* the map, by eviction or by the insertion of another bitmap for its page,
\* has been closed.
C26_NoBitmapLeaked == last.unclosed = {}

\* C25: after a navigation event (next, previous, goToPage; keyboard, swipe,
\* tap or button) the current page is at least 1, also when the event comes
\* while the document is loading, and at most totalPages once the document
\* is loaded.
C25_CurrentPageInRange ==
  last.op \in {"Next", "Prev", "GoTo"} =>
    /\ 1 <= currentPage
    /\ totalPages > 0 => currentPage <= totalPages

\* C28: while the flashcard view of a session is shown the current index is
\* below the number of cards, and no card has two ratings in flight.
C28_OneRatingPerCard ==
  /\ ShowsCard => review.currentIndex < Len(review.cards)
  /\ \A id \in DOMAIN vocabulary : InFlight(id) <= 1

\* C27: every bitmap resident in the page cache is open, and no run of the
\* render effect draws a closed bitmap on a cache hit.
C27_ResidentBitmapsOpen ==
  /\ \A p \in DOMAIN pageCache : ~pageCache[p].closed
  /\ last.op # "DrawClosed"

\* After a scale change has flushed the cache, a run has painted its page
\* from a bitmap stored since.
C27_Witness ==
  /\ last.op = "DrawCached"
  /\ last.painted
  /\ cacheScale # DefaultScale
  /\ last.page \in DOMAIN pageCache
  /\ ~pageCache[last.page].closed

\* C29: when nothing fails, once the run of the render effect for the
\* current page and scale has committed and every run and every prefetch
\* task has finished, each page of c+1..c+3 and c-1 inside 1..totalPages is
\* resident in the cache at the current scale.
C29_WindowFilledWhenSettled ==
  (pdf /\ effects = <<>> /\ tasks = EmptyBag) =>
    \A q \in PrefetchTargets(currentPage, totalPages) :
      /\ q \in DOMAIN pageCache
      /\ pageCache[q].scale = scale

\* C30: in a fold of ratings from the default scheduling state, a card with
\* two or more repetitions has an interval of at least 6 and an ease factor
\* of at least 1.3, and every successful rating of such a card gives it an
\* interval strictly greater than the one it had.
C30_IntervalGrows ==
  [][\A id \in DOMAIN vocabulary :
       /\ vocabulary'[id].repetitions >= 2 =>
            /\ vocabulary'[id].interval >= 6
            /\ vocabulary'[id].easeFactor >= MinEase
       /\ (vocabulary'[id].ratings > vocabulary[id].ratings
             /\ vocabulary[id].repetitions >= 2
             /\ vocabulary'[id].repetitions > vocabulary[id].repetitions) =>
            vocabulary'[id].interval > vocabulary[id].interval]_vars

\* After two failed ratings of quality 0 a card has been rated successfully
\* three times in a row, the third time with two repetitions behind it and
\* a lowered ease factor.
C30_Witness ==
  \E id \in DOMAIN vocabulary :
    /\ vocabulary[id].ratings = MaxFoldRatings
    /\ vocabulary[id].repetitions = 3
    /\ vocabulary[id].streak = 3
    /\ vocabulary[id].easeFactor < 1500
    /\ vocabulary[id].interval > 6

====
